---- MODULE Spec2Model ----
(***************************************************************************)
(* Template registry of trusted-cgi (src/templates/template.go):           *)
(*   - mustEmbed / ListEmbedded : the compiled-in catalog,                 *)
(*   - Read / ListDir / List    : the on-disk overrides and the merge,     *)
(*   - Template.IsAvailable     : the availability probes.                 *)
(* Strings are Go strings; maps are TLA+ functions over their key set.     *)
(***************************************************************************)
EXTENDS Integers, Sequences, FiniteSets, TLC

VARIABLES
    srcTree,     \* source files under assets/python at build time: path -> content
    assets,      \* what go:embed put into the binary for assets/python
    embedOut,    \* result of the last mustEmbed("assets/python") call
    catalog,     \* result of the last ListEmbedded() call
    firstCatalog,\* result of the first ListEmbedded() call
    disk,        \* override directories: directory -> state
    last,        \* the last List / ListDir call and what it returned
    firstList,   \* directory -> what the first List call on it returned
    check,       \* IsAvailable invocation -> t.Check of its template
    ctx,         \* invocation -> state of its context
    pc,          \* invocation -> position in IsAvailable
    idx,         \* invocation -> index of the range loop
    child,       \* invocation -> state of the child process of cmd.Run()
    log,         \* invocation -> outcome of every cmd.Run() so far
    result,      \* invocation -> returned value
    cancelAt     \* invocation -> where it stood when its context was canceled

embedVars == <<srcTree, assets, embedOut, catalog, firstCatalog>>
listVars  == <<disk, last, firstList>>
availVars == <<check, ctx, pc, idx, child, log, result, cancelAt>>
vars      == <<embedVars, listVars, availVars>>

\* an optional value: <<>> before the call, <<v>> once it returned v
None == <<>>
Some(v) == <<v>>
ValueOf(o) == o[1]

(***************************************************************************)
(* Bounds of the model.                                                    *)
(***************************************************************************)
MaxPathLen == 3   \* longest path of a source file under assets/python
MaxAssets  == 2   \* most source files under assets/python
MaxFiles   == 2   \* most entries of the override directory d1
MaxOtherFiles == 1   \* most entries of the override directory d2
MaxChecks  == 2   \* longest check list of a probed template

(***************************************************************************)
(* Strings.                                                                *)
(***************************************************************************)
CharAt(s, i) == SubSeq(s, i, i)

\* strings.HasSuffix
HasSuffix(s, suffix) ==
    /\ Len(s) >= Len(suffix)
    /\ SubSeq(s, Len(s) - Len(suffix) + 1, Len(s)) = suffix

RECURSIVE TrimLeft(_, _)
TrimLeft(s, cutset) ==
    IF Len(s) > 0 /\ CharAt(s, 1) \in cutset
    THEN TrimLeft(SubSeq(s, 2, Len(s)), cutset)
    ELSE s

RECURSIVE TrimRight(_, _)
TrimRight(s, cutset) ==
    IF Len(s) > 0 /\ CharAt(s, Len(s)) \in cutset
    THEN TrimRight(SubSeq(s, 1, Len(s) - 1), cutset)
    ELSE s

\* strings.Trim(s, cutset): every leading and trailing character of cutset removed
Trim(s, cutset) == TrimRight(TrimLeft(s, cutset), cutset)

\* the argument "/." of strings.Trim in mustEmbed
TrimCutsetSlashOnly == {"/"}
TrimCutset == {"/", "."}

(***************************************************************************)
(* The asset tree.                                                         *)
(***************************************************************************)
Alphabet == {"a", ".", "/"}

RECURSIVE StringsOfLen(_)
StringsOfLen(n) ==
    IF n = 0 THEN {""}
    ELSE {s \o c : s \in StringsOfLen(n - 1), c \in Alphabet}

\* the name of a directory entry: not empty, not "." or "..", no separator
RECURSIVE ValidPath(_)
ValidPath(p) ==
    LET slashes == {i \in 1..Len(p) : CharAt(p, i) = "/"}
    IN  IF slashes = {}
        THEN p \notin {"", ".", ".."}
        ELSE LET i == CHOOSE j \in slashes : \A k \in slashes : j <= k
             IN  /\ SubSeq(p, 1, i - 1) \notin {"", ".", ".."}
                 /\ ValidPath(SubSeq(p, i + 1, Len(p)))

SourcePaths ==
    {p \in UNION {StringsOfLen(n) : n \in 1..MaxPathLen} : ValidPath(p)}

\* the bytes of the source file at path p
Content(p) == "bytes of " \o p

\* go:embed of a directory leaves out the files whose name, or the name of a
\* directory above them, begins with '.' or '_'
Hidden(p) ==
    \E i \in 1..Len(p) :
        /\ CharAt(p, i) \in {".", "_"}
        /\ (i = 1 \/ CharAt(p, i - 1) = "/")

Embed(tree) == [p \in {q \in DOMAIN tree : ~Hidden(q)} |-> tree[p]]

\* fs.WalkDir visits the entries of a directory in lexical order of their
\* names: the separator ranks below every character of a name
CharRank(c) == IF c = "/" THEN 0 ELSE IF c = "." THEN 1 ELSE IF c = "_" THEN 2 ELSE 3

RECURSIVE WalkBefore(_, _)
WalkBefore(p, q) ==
    IF p = "" THEN q # ""
    ELSE IF q = "" THEN FALSE
    ELSE IF CharAt(p, 1) = CharAt(q, 1)
         THEN WalkBefore(SubSeq(p, 2, Len(p)), SubSeq(q, 2, Len(q)))
         ELSE CharRank(CharAt(p, 1)) < CharRank(CharAt(q, 1))

RECURSIVE WalkOrder(_)
WalkOrder(paths) ==
    IF paths = {} THEN <<>>
    ELSE LET first == CHOOSE p \in paths : \A q \in paths \ {p} : WalkBefore(p, q)
         IN  <<first>> \o WalkOrder(paths \ {first})

\* out[p] = string(content): a map store, overwriting an earlier one
MapStore(m, k, v) == [x \in DOMAIN m \cup {k} |-> IF x = k THEN v ELSE m[x]]

EmptyMap == [x \in {} |-> ""]

\* the key mustEmbed stores a walked file under
AssetKey(asset) == Trim(asset, TrimCutset)

RECURSIVE WalkAssets(_, _, _)
WalkAssets(fsys, order, out) ==
    IF order = <<>> THEN out
    ELSE WalkAssets(fsys, Tail(order),
                    MapStore(out, AssetKey(Head(order)), fsys[Head(order)]))

\* mustEmbed(root) on the embedded tree of root
mustEmbed(fsys) == WalkAssets(fsys, WalkOrder(DOMAIN fsys), EmptyMap)

(***************************************************************************)
(* The embedded catalog.                                                   *)
(***************************************************************************)
UsageText == "### Usage ... Replace url to the real"

\* types.Manifest as the catalog fills it
Manifest(name, run) ==
    [name           |-> name,
     description    |-> UsageText,
     run            |-> run,
     timeLimit      |-> "1s",
     maximumPayload |-> "8192",
     outputHeaders  |-> [h \in {"Content-Type"} |-> "application/json"]]

NodeJsFiles ==
    [k \in {"app.js", "package.json", "Makefile", ".cgiignore"} |->
        CASE k = "app.js"       -> "nodeJsScript"
          [] k = "package.json" -> "nodeJsManifest"
          [] k = "Makefile"     -> "nodeJsMake"
          [] k = ".cgiignore"   -> "node_modules"]

PhpFiles == [k \in {"app.php"} |-> "phpScript"]

NimFiles ==
    [k \in {"src/lambda.nim", "lambda.nimble", "Makefile"} |->
        CASE k = "src/lambda.nim" -> "nimScript"
          [] k = "lambda.nimble"  -> "nimbleManifest"
          [] k = "Makefile"       -> "nimMake"]

PythonTemplate ==
    [description |-> "Python basic function",
     manifest    |-> Manifest("Example Python Function", <<"./venv/bin/python3", "app.py">>),
     postClone   |-> "install",
     check       |-> << <<"which", "make">>, <<"which", "python3">>,
                        <<"python3", "-m", "venv", "--help">> >>,
     files       |-> mustEmbed(assets)]

NodeJsTemplate ==
    [description |-> "Node JS basic function",
     manifest    |-> Manifest("Example NodeJS Function", <<"node", "app.js">>),
     postClone   |-> "install",
     check       |-> << <<"which", "make">>, <<"which", "node">>, <<"which", "npm">> >>,
     files       |-> NodeJsFiles]

PhpTemplate ==
    [description |-> "PHP basic function",
     manifest    |-> Manifest("Example PHP Function", <<"php", "app.php">>),
     postClone   |-> "",
     check       |-> << <<"which", "php">> >>,
     files       |-> PhpFiles]

NimTemplate ==
    [description |-> "Nim lang basic function",
     manifest    |-> Manifest("Fast python-like function", <<"./bin/lambda">>),
     postClone   |-> "build",
     check       |-> << <<"which", "make">>, <<"which", "nim">>, <<"which", "nimble">> >>,
     files       |-> NimFiles]

EmbeddedNames == {"Python", "Node JS", "PHP", "Nim"}

\* ListEmbedded(): a fresh map literal on every call
ListEmbedded ==
    [n \in EmbeddedNames |->
        CASE n = "Python"  -> PythonTemplate
          [] n = "Node JS" -> NodeJsTemplate
          [] n = "PHP"     -> PhpTemplate
          [] n = "Nim"     -> NimTemplate]

(***************************************************************************)
(* Source trees of assets/python the build accepts: a file is no directory *)
(* of another file, and go:embed finds at least one file to embed.         *)
(***************************************************************************)
IsDirOf(p, q) == Len(q) > Len(p) + 1 /\ SubSeq(q, 1, Len(p) + 1) = p \o "/"

RECURSIVE PathSetsUpTo(_)
PathSetsUpTo(n) ==
    IF n = 0 THEN {{}}
    ELSE LET smaller == PathSetsUpTo(n - 1)
         IN  smaller \cup {s \cup {p} : s \in smaller, p \in SourcePaths}

SourceTrees ==
    {[p \in s |-> Content(p)] :
        s \in {t \in PathSetsUpTo(MaxAssets) :
                 /\ \A p \in t, q \in t : ~IsDirOf(p, q)
                 /\ \E p \in t : ~Hidden(p)}}

\* the tree the listing specification runs on
ListingTrees == {[p \in {"a", "aa"} |-> Content(p)]}

EmbedIdle ==
    /\ embedOut = None
    /\ catalog = None
    /\ firstCatalog = None

CallMustEmbed ==
    /\ embedOut' = Some(mustEmbed(assets))
    /\ UNCHANGED <<srcTree, assets, catalog, firstCatalog, listVars, availVars>>

CallListEmbedded ==
    /\ catalog' = Some(ListEmbedded)
    /\ firstCatalog' = IF firstCatalog = None THEN Some(ListEmbedded) ELSE firstCatalog
    /\ UNCHANGED <<srcTree, assets, embedOut, listVars, availVars>>

(***************************************************************************)
(* Override directories.                                                   *)
(***************************************************************************)
Dirs == {"d1", "d2"}

\* the names a directory entry may have, in the order ioutil.ReadDir sorts them
FileNames == <<"Python.json", "notes.txt", "python.json">>

\* const suffix = ".json"
Suffix == ".json"

NoError == ""

\* the zero value of types.Manifest, for a descriptor that leaves it out
ZeroManifest ==
    [name |-> "", description |-> "", run |-> <<>>, timeLimit |-> "0s",
     maximumPayload |-> "0", outputHeaders |-> EmptyMap]

\* what the descriptor file dir/name decodes to: a description and nothing
\* else, so every other field is its zero value and the check list is empty
Descriptor(dir, name) ==
    [description |-> "override " \o dir \o "/" \o name,
     manifest    |-> ZeroManifest,
     postClone   |-> "",
     check       |-> <<>>,
     files       |-> EmptyMap]

\* an entry of a directory: a subdirectory, or a file that cannot be opened,
\* does not decode, or decodes
EntryKinds == {"subdir", "unopenable", "malformed", "descriptor"}

RECURSIVE NameSetsUpTo(_)
NameSetsUpTo(n) ==
    IF n = 0 THEN {{}}
    ELSE LET smaller == NameSetsUpTo(n - 1)
         IN  smaller \cup {s \cup {FileNames[i]} : s \in smaller, i \in DOMAIN FileNames}

DirStates(n) ==
    {[kind |-> "missing", items |-> EmptyMap], [kind |-> "unreadable", items |-> EmptyMap]}
    \cup {[kind |-> "dir", items |-> it] :
            it \in UNION {[s -> EntryKinds] : s \in NameSetsUpTo(n)}}

MaxEntries(dir) == IF dir = "d1" THEN MaxFiles ELSE MaxOtherFiles

\* Read(filename): the template and the error
Read(dir, name) ==
    LET st == disk[dir].items[name]
    IN  IF st = "unopenable"
        THEN [t |-> None, err |-> "open " \o dir \o "/" \o name]
        ELSE IF st = "malformed"
        THEN [t |-> Some(Descriptor(dir, name)), err |-> "decode " \o dir \o "/" \o name]
        ELSE [t |-> Some(Descriptor(dir, name)), err |-> NoError]

\* ioutil.ReadDir(dir) did not find dir: return map[string]*Template{}, nil
ReadDirMissingAsError(dir) == [reg |-> None, err |-> "readdir " \o dir]
ReadDirMissing(dir) == [reg |-> Some(EmptyMap), err |-> NoError]

\* Read failed in the scan: return nil, err
ReadFailedPartial(ans, err) == [reg |-> Some(ans), err |-> err]
ReadFailed(ans, err) == [reg |-> None, err |-> err]

\* name = name[:len(name)-len(suffix)]
TemplateNameUnstripped(name) == name
TemplateName(name) == SubSeq(name, 1, Len(name) - Len(Suffix))

\* the loop of ListDir over the sorted items
RECURSIVE ScanItems(_, _, _)
ScanItems(dir, items, ans) ==
    IF items = <<>> THEN [reg |-> Some(ans), err |-> NoError]
    ELSE LET name == Head(items)
         IN  IF disk[dir].items[name] = "subdir" \/ ~HasSuffix(name, Suffix)
             THEN ScanItems(dir, Tail(items), ans)
             ELSE LET r == Read(dir, name)
                  IN  IF r.err # NoError
                      THEN ReadFailed(ans, r.err)
                      ELSE ScanItems(dir, Tail(items),
                                     MapStore(ans, TemplateName(name), ValueOf(r.t)))

ListDir(dir) ==
    IF disk[dir].kind = "missing" THEN ReadDirMissing(dir)
    ELSE IF disk[dir].kind = "unreadable" THEN [reg |-> None, err |-> "readdir " \o dir]
    ELSE ScanItems(dir,
                   SelectSeq(FileNames, LAMBDA f : f \in DOMAIN disk[dir].items),
                   EmptyMap)

\* merged[name] = t
MergeEntryKeepEmbedded(merged, name, t) ==
    IF name \in DOMAIN merged THEN merged ELSE MapStore(merged, name, t)
MergeEntry(merged, name, t) == MapStore(merged, name, t)

\* for name, t := range ext { merged[name] = t }: the keys of a map are
\* distinct, so the order of the range does not show in the result
RECURSIVE MergeAll(_, _, _)
MergeAll(merged, ext, names) ==
    IF names = {} THEN merged
    ELSE LET name == CHOOSE n \in names : TRUE
         IN  MergeAll(MergeEntry(merged, name, ext[name]), ext, names \ {name})

\* List with the catalog kept from the call before instead of built afresh
ListCached(templatesDir) ==
    LET merged == IF last # None /\ ValueOf(last).op = "List" /\ ValueOf(last).reg # None
                  THEN ValueOf(ValueOf(last).reg) ELSE ListEmbedded
        ext    == ListDir(templatesDir)
    IN  IF ext.err # NoError THEN [reg |-> None, err |-> ext.err]
        ELSE [reg |-> Some(MergeAll(merged, ValueOf(ext.reg), DOMAIN ValueOf(ext.reg))),
              err |-> NoError]

List(templatesDir) ==
    LET merged == ListEmbedded
        ext    == ListDir(templatesDir)
    IN  IF ext.err # NoError THEN [reg |-> None, err |-> ext.err]
        ELSE [reg |-> Some(MergeAll(merged, ValueOf(ext.reg), DOMAIN ValueOf(ext.reg))),
              err |-> NoError]

ListIdle == disk = None /\ last = None /\ firstList = None

CallListDir(dir) ==
    /\ LET r == ListDir(dir)
       IN  last' = Some([op |-> "ListDir", dir |-> dir, reg |-> r.reg, err |-> r.err])
    /\ UNCHANGED <<disk, firstList, embedVars, availVars>>

CallList(dir) ==
    /\ LET r == List(dir)
       IN  /\ last' = Some([op |-> "List", dir |-> dir, reg |-> r.reg, err |-> r.err])
           /\ firstList' = IF firstList[dir] = None
                           THEN [firstList EXCEPT ![dir] = Some(r)]
                           ELSE firstList
    /\ UNCHANGED <<disk, embedVars, availVars>>

(***************************************************************************)
(* Template.IsAvailable.  Each invocation has its own template and its own *)
(* context; the caller may run several at once.                            *)
(***************************************************************************)
Invs == {"A", "B"}

\* the argument vectors of a check list: a command, and the empty vector a
\* descriptor may hold ("check": [[]])
Argvs == {<<"which", "make">>, <<>>}

RECURSIVE CheckListsOfLen(_)
CheckListsOfLen(n) ==
    IF n = 0 THEN {<<>>}
    ELSE {Append(c, a) : c \in CheckListsOfLen(n - 1), a \in Argvs}

CheckLists == UNION {CheckListsOfLen(n) : n \in 0..MaxChecks}

\* exec.CommandContext(ctx, ...): Start refuses to run once ctx is done
StartRefusedNever(i) == FALSE
StartRefused(i) == ctx[i] = "canceled"

\* the context the goroutine started by cmd.Start watches: the one passed in
WatchedCtxShared(i) == IF \E j \in Invs : ctx[j] = "canceled" THEN "canceled" ELSE "active"
WatchedCtx(i) == ctx[i]

\* cmd.Run() != nil
RunFailedOnlyOnLast(i, outcome) == outcome # "ok" /\ idx[i] = Len(check[i])
RunFailed(i, outcome) == outcome # "ok"

Entry(probe, outcome) == [probe |-> probe, outcome |-> outcome]

ReturnValue(i, v) ==
    /\ result' = [result EXCEPT ![i] = Some(v)]
    /\ pc' = [pc EXCEPT ![i] = "returned"]

\* the caller invokes t.IsAvailable(ctx)
Call(i) ==
    /\ pc[i] = "idle"
    /\ pc' = [pc EXCEPT ![i] = "loop"]
    /\ idx' = [idx EXCEPT ![i] = 1]
    /\ UNCHANGED <<check, ctx, child, log, result, cancelAt, embedVars, listVars>>

\* the range loop is over: return true
LoopEnd(i) ==
    /\ pc[i] = "loop"
    /\ idx[i] > Len(check[i])
    /\ ReturnValue(i, TRUE)
    /\ UNCHANGED <<check, ctx, idx, child, log, cancelAt, embedVars, listVars>>

\* check[0] of an argument vector with no element: index out of range
LoopPanic(i) ==
    /\ pc[i] = "loop"
    /\ idx[i] <= Len(check[i])
    /\ Len(check[i][idx[i]]) = 0
    /\ pc' = [pc EXCEPT ![i] = "panicked"]
    /\ UNCHANGED <<check, ctx, idx, child, log, result, cancelAt, embedVars, listVars>>

\* cmd.Run() up to the start of the child: the context is done already, the
\* program cannot be started, or the child runs
LoopStart(i) ==
    /\ pc[i] = "loop"
    /\ idx[i] <= Len(check[i])
    /\ Len(check[i][idx[i]]) > 0
    /\ IF StartRefused(i)
       THEN /\ log' = [log EXCEPT ![i] = Append(@, Entry(idx[i], "ctxdone"))]
            /\ ReturnValue(i, FALSE)
            /\ UNCHANGED child
       ELSE \/ /\ log' = [log EXCEPT ![i] = Append(@, Entry(idx[i], "nostart"))]
               /\ ReturnValue(i, FALSE)
               /\ UNCHANGED child
            \/ /\ log' = [log EXCEPT ![i] = Append(@, Entry(idx[i], "running"))]
               /\ child' = [child EXCEPT ![i] = "running"]
               /\ pc' = [pc EXCEPT ![i] = "wait"]
               /\ UNCHANGED result
    /\ UNCHANGED <<check, ctx, idx, cancelAt, embedVars, listVars>>

\* the child exits on its own, with status zero or not
ChildExit(i) ==
    /\ pc[i] = "wait"
    /\ child[i] = "running"
    /\ \E status \in {"exited_ok", "exited_fail"} :
           child' = [child EXCEPT ![i] = status]
    /\ UNCHANGED <<check, ctx, pc, idx, log, result, cancelAt, embedVars, listVars>>

\* the caller cancels the context, or its deadline passes
Cancel(i) ==
    /\ ctx[i] = "active"
    /\ ctx' = [ctx EXCEPT ![i] = "canceled"]
    /\ cancelAt' = [cancelAt EXCEPT ![i] = Some([pc |-> pc[i], idx |-> idx[i]])]
    /\ UNCHANGED <<check, pc, idx, child, log, result, embedVars, listVars>>

\* the goroutine of cmd.Start sees the context done before Wait is through:
\* it kills a running child; of a child that has exited it changes nothing,
\* or makes Wait report the context's error in place of the success
Watcher(i) ==
    /\ pc[i] = "wait"
    /\ WatchedCtx(i) = "canceled"
    /\ child[i] \in {"running", "exited_ok"}
    /\ child' = [child EXCEPT ![i] = IF @ = "running" THEN "killed" ELSE "exited_ctxerr"]
    /\ UNCHANGED <<check, ctx, pc, idx, log, result, cancelAt, embedVars, listVars>>

Outcome(status) ==
    CASE status = "exited_ok"     -> "ok"
      [] status = "exited_fail"   -> "fail"
      [] status = "killed"        -> "killed"
      [] status = "exited_ctxerr" -> "ctxerr"

\* cmd.Run() returns: on an error return false, else go on with the loop
WaitReturn(i) ==
    /\ pc[i] = "wait"
    /\ child[i] \in {"exited_ok", "exited_fail", "killed", "exited_ctxerr"}
    /\ log' = [log EXCEPT ![i] =
                  [@ EXCEPT ![Len(@)] = Entry(idx[i], Outcome(child[i]))]]
    /\ child' = [child EXCEPT ![i] = "none"]
    /\ IF RunFailed(i, Outcome(child[i]))
       THEN /\ ReturnValue(i, FALSE)
            /\ UNCHANGED idx
       ELSE /\ idx' = [idx EXCEPT ![i] = @ + 1]
            /\ pc' = [pc EXCEPT ![i] = "loop"]
            /\ UNCHANGED result
    /\ UNCHANGED <<check, ctx, cancelAt, embedVars, listVars>>

(***************************************************************************)
(* Specification of the asset provider and the embedded catalog.           *)
(***************************************************************************)
AvailIdle ==
    /\ check = None /\ ctx = None /\ pc = None /\ idx = None
    /\ child = None /\ log = None /\ result = None /\ cancelAt = None

InitEmbed ==
    /\ srcTree \in SourceTrees
    /\ assets = Embed(srcTree)
    /\ EmbedIdle
    /\ ListIdle
    /\ AvailIdle

NextEmbed == CallMustEmbed \/ CallListEmbedded

SpecEmbed == InitEmbed /\ [][NextEmbed]_vars

NoLeadingSeparatorOrDot(files) ==
    \A k \in DOMAIN files : CharAt(k, 1) \notin {"/", "."}

\* every file of the tree is in the mapping, under a key of its own, unchanged
EveryAssetKept(tree, files) ==
    /\ Cardinality(DOMAIN files) = Cardinality(DOMAIN tree)
    /\ \A p \in DOMAIN tree : \E k \in DOMAIN files : files[k] = tree[p]

RECURSIVE DotsAfter(_, _)
DotsAfter(key, p) ==
    \/ p = key
    \/ /\ Len(p) > Len(key)
       /\ CharAt(p, Len(p)) = "."
       /\ DotsAfter(key, SubSeq(p, 1, Len(p) - 1))

\* what mustEmbed makes of the embedded tree
TrimmedTree(tree, files) ==
    /\ NoLeadingSeparatorOrDot(files)
    /\ \A k \in DOMAIN files : CharAt(k, Len(k)) # "."
    /\ \A k \in DOMAIN files :
           \E p \in DOMAIN tree : DotsAfter(k, p) /\ files[k] = tree[p]
    /\ \A p \in DOMAIN tree : \E k \in DOMAIN files : DotsAfter(k, p)
    /\ (\A p \in DOMAIN tree : CharAt(p, Len(p)) # ".") => files = tree

InitList ==
    /\ srcTree \in ListingTrees
    /\ assets = Embed(srcTree)
    /\ EmbedIdle
    /\ disk \in [Dirs -> DirStates(MaxFiles)]
    /\ \A dir \in Dirs : Cardinality(DOMAIN disk[dir].items) <= MaxEntries(dir)
    /\ last = None
    /\ firstList = [d \in Dirs |-> None]
    /\ AvailIdle

NextList ==
    \/ CallListEmbedded
    \/ \E dir \in Dirs : CallListDir(dir)
    \/ \E dir \in Dirs : CallList(dir)

SpecList == InitList /\ [][NextList]_vars

\* the descriptor files of a directory ListDir decodes
Qualifying(dir) ==
    {f \in DOMAIN disk[dir].items :
        disk[dir].items[f] # "subdir" /\ HasSuffix(f, Suffix)}

ScanFails(dir) ==
    \/ disk[dir].kind = "unreadable"
    \/ \E f \in Qualifying(dir) : disk[dir].items[f] # "descriptor"

Listed(dir) == last # None /\ ValueOf(last).op = "List" /\ ValueOf(last).dir = dir
LastReg == ValueOf(ValueOf(last).reg)
LastErr == ValueOf(last).err

\* C1: in the registry List(dir) returns, a name both embedded and on disk maps
\* to the template decoded from disk, every field of it; an embedded name
\* the directory does not produce keeps the embedded template; a name only
\* the directory produces is added; no other name is in the registry.
C1_OverrideReplacesWholesale ==
    \A dir \in Dirs :
        (Listed(dir) /\ LastErr = NoError) =>
            LET names == {TemplateName(f) : f \in Qualifying(dir)}
            IN  /\ DOMAIN LastReg = EmbeddedNames \cup names
                /\ \A f \in Qualifying(dir) :
                       LastReg[TemplateName(f)] = Descriptor(dir, f)
                /\ \A n \in EmbeddedNames \ names : LastReg[n] = ListEmbedded[n]

C1_Witness ==
    \E dir \in Dirs :
        /\ Listed(dir) /\ LastErr = NoError
        /\ Qualifying(dir) = {"Python.json", "python.json"}
        /\ LastReg["Python"] # ListEmbedded["Python"]
        /\ LastReg["Python"].check = <<>>
        /\ LastReg["PHP"] = ListEmbedded["PHP"]

\* C3: a scan that meets an unreadable directory, a file it cannot open or a
\* descriptor that does not decode returns a nil map and the error, from
\* ListDir and from List, whatever was decoded before the failing file.
C3_ErrorMeansNoCatalog ==
    last # None =>
        /\ LastErr # NoError <=> ScanFails(ValueOf(last).dir)
        /\ LastErr # NoError => ValueOf(last).reg = None
        /\ LastErr = NoError => ValueOf(last).reg # None

\* a descriptor was decoded before the scan met the failing file
C3_WitnessFor(op) ==
    \E dir \in Dirs :
        /\ last # None /\ ValueOf(last).op = op /\ ValueOf(last).dir = dir
        /\ DOMAIN disk[dir].items = {"Python.json", "python.json"}
        /\ disk[dir].items["Python.json"] = "descriptor"
        /\ disk[dir].items["python.json"] = "malformed"
        /\ LastErr = "decode " \o dir \o "/python.json"

C3_Witness == C3_WitnessFor("List")

\* C7: List of a directory that does not exist returns no error and the
\* embedded catalog: the same names, each with the embedded template.
C7_MissingDirIsEmbedded ==
    \A dir \in Dirs :
        (Listed(dir) /\ disk[dir].kind = "missing") =>
            /\ LastErr = NoError
            /\ ValueOf(last).reg = Some(ListEmbedded)
            /\ catalog # None => ValueOf(last).reg = catalog

C7_Witness ==
    \E dir \in Dirs :
        /\ Listed(dir) /\ disk[dir].kind = "missing"
        /\ catalog # None
        /\ DOMAIN LastReg = EmbeddedNames

\* C6 as stated: the only descriptor of the directory is python.json, with an
\* empty check list, and List(dir)["Python"] is that template.
C6_Original ==
    \A dir \in Dirs :
        ( /\ Listed(dir)
          /\ disk[dir].kind = "dir"
          /\ DOMAIN disk[dir].items = {"python.json"}
          /\ disk[dir].items["python.json"] = "descriptor" ) =>
            /\ LastErr = NoError
            /\ LastReg["Python"] = Descriptor(dir, "python.json")
            /\ LastReg["Python"].check = <<>>

\* C6 amended: the key is the file name without ".json", letter case kept.
\* The descriptor python.json is registered as "python", and "Python" stays
\* the embedded template with its probes of make and python3; the descriptor
\* Python.json is the one that replaces "Python", and its check list is empty.
C6_KeyIsFileNameSansSuffix ==
    \A dir \in Dirs :
        (Listed(dir) /\ disk[dir].kind = "dir") =>
            /\ ( /\ DOMAIN disk[dir].items = {"python.json"}
                 /\ disk[dir].items["python.json"] = "descriptor" ) =>
                   /\ LastErr = NoError
                   /\ DOMAIN LastReg = EmbeddedNames \cup {"python"}
                   /\ LastReg["python"] = Descriptor(dir, "python.json")
                   /\ LastReg["python"].check = <<>>
                   /\ LastReg["Python"] = ListEmbedded["Python"]
                   /\ \E k \in DOMAIN LastReg["Python"].check :
                          LastReg["Python"].check[k] = <<"which", "python3">>
            /\ ( /\ DOMAIN disk[dir].items = {"Python.json"}
                 /\ disk[dir].items["Python.json"] = "descriptor" ) =>
                   /\ LastErr = NoError
                   /\ DOMAIN LastReg = EmbeddedNames
                   /\ LastReg["Python"] = Descriptor(dir, "Python.json")
                   /\ LastReg["Python"].check = <<>>

C6_Witness ==
    \E dir \in Dirs :
        /\ Listed(dir)
        /\ disk[dir].kind = "dir"
        /\ DOMAIN disk[dir].items = {"python.json"}
        /\ disk[dir].items["python.json"] = "descriptor"
        /\ "python" \in DOMAIN LastReg

\* C10: whatever was listed before, ListEmbedded() returns the catalog its
\* first call returned, and List(dir) returns what the first List(dir)
\* returned: the directories did not change, so nothing else can show.
C10_FreshEveryCall ==
    /\ catalog # None => catalog = firstCatalog
    /\ \A dir \in Dirs :
           Listed(dir) =>
               /\ firstList[dir] # None
               /\ ValueOf(firstList[dir]) = [reg |-> ValueOf(last).reg, err |-> LastErr]
               /\ LastErr = NoError =>
                      LET own == {TemplateName(f) : f \in Qualifying(dir)}
                      IN  /\ DOMAIN LastReg \subseteq own \cup EmbeddedNames
                          /\ catalog # None =>
                                 \A n \in DOMAIN LastReg \ own :
                                     LastReg[n] = ValueOf(catalog)[n]

\* d2 was listed and its Python.json replaced "Python"; the List of d1 now
\* returned has the embedded "Python", and ListEmbedded() was called as well
C10_Witness ==
    /\ Listed("d1") /\ LastErr = NoError
    /\ catalog # None
    /\ firstList["d2"] # None
    /\ ValueOf(firstList["d2"]).reg # None
    /\ ValueOf(ValueOf(firstList["d2"]).reg)["Python"] = Descriptor("d2", "Python.json")
    /\ LastReg["Python"] = ListEmbedded["Python"]

(***************************************************************************)
(* Specification of the availability checks.                               *)
(***************************************************************************)
InitAvail ==
    /\ srcTree \in ListingTrees
    /\ assets = Embed(srcTree)
    /\ EmbedIdle
    /\ ListIdle
    /\ check \in [Invs -> CheckLists]
    /\ ctx = [i \in Invs |-> "active"]
    /\ pc = [i \in Invs |-> "idle"]
    /\ idx = [i \in Invs |-> 0]
    /\ child = [i \in Invs |-> "none"]
    /\ log = [i \in Invs |-> <<>>]
    /\ result = [i \in Invs |-> None]
    /\ cancelAt = [i \in Invs |-> None]

NextAvail ==
    \E i \in Invs :
        \/ Call(i)
        \/ LoopEnd(i)
        \/ LoopPanic(i)
        \/ LoopStart(i)
        \/ ChildExit(i)
        \/ Cancel(i)
        \/ Watcher(i)
        \/ WaitReturn(i)

SpecAvail == InitAvail /\ [][NextAvail]_vars

AllPassed(i) ==
    /\ Len(log[i]) = Len(check[i])
    /\ \A k \in DOMAIN log[i] : log[i][k].outcome = "ok"

\* C2: the probes run in list order, a probe only after every earlier one
\* passed; false is returned at the first probe that fails, true exactly
\* when every probe of the list passed, and so for an empty list.
C2_ShortCircuitAnd ==
    \A i \in Invs :
        /\ \A k \in DOMAIN log[i] : log[i][k].probe = k
        /\ \A k \in DOMAIN log[i] : k < Len(log[i]) => log[i][k].outcome = "ok"
        /\ child[i] # "none" => log[i][Len(log[i])].outcome = "running"
        /\ pc[i] = "returned" =>
              /\ result[i] = Some(TRUE) <=> AllPassed(i)
              /\ result[i] = Some(FALSE) <=>
                     /\ Len(log[i]) >= 1
                     /\ log[i][Len(log[i])].outcome \notin {"ok", "running"}
              /\ check[i] = <<>> => result[i] = Some(TRUE)

\* A returned false at the first of two probes; B returned true after two
C2_Witness ==
    /\ Len(check["A"]) = 2 /\ Len(log["A"]) = 1 /\ log["A"][1].outcome = "fail"
    /\ result["A"] = Some(FALSE)
    /\ Len(check["B"]) = 2 /\ Len(log["B"]) = 2
    /\ result["B"] = Some(TRUE)

\* C4 as stated: IsAvailable always completes by returning a boolean; for no
\* template a descriptor can decode to does it abort with a panic.
C4_NeverPanics ==
    \A i \in Invs : pc[i] # "panicked"

\* the context was canceled with the probe sequence in progress: before the
\* call or a probe of a non-empty list, or during a probe
CanceledInProgress(i) ==
    /\ cancelAt[i] # None
    /\ check[i] # <<>>
    /\ \/ ValueOf(cancelAt[i]).pc = "idle"
       \/ ValueOf(cancelAt[i]).pc = "loop" /\ ValueOf(cancelAt[i]).idx <= Len(check[i])
       \/ ValueOf(cancelAt[i]).pc = "wait"

\* the probes of the list that were due after the cancellation
DueAfterCancel(i) ==
    LET c == ValueOf(cancelAt[i])
    IN  {k \in DOMAIN log[i] : k > c.idx \/ (k = c.idx /\ c.pc = "loop")}

\* C5 as stated: a context canceled before or during a probe makes
\* IsAvailable run no later probe and return false.
C5_Original ==
    \A i \in Invs :
        (CanceledInProgress(i) /\ pc[i] = "returned") =>
            /\ \A k \in DueAfterCancel(i) : log[i][k].outcome = "ctxdone"
            /\ result[i] = Some(FALSE)

\* C5 amended: no child is started after the cancellation; a child running
\* at the cancellation is killed unless it exits first; IsAvailable does not
\* return true, except when the context was canceled during the last probe
\* of the list and its child had exited with success before the kill.
C5_CancelStopsProbing ==
    \A i \in Invs :
        CanceledInProgress(i) =>
            LET c == ValueOf(cancelAt[i])
            IN  /\ \A k \in DueAfterCancel(i) : log[i][k].outcome = "ctxdone"
                /\ child[i] = "running" => ENABLED Watcher(i)
                /\ result[i] = Some(TRUE) =>
                       /\ c.pc = "wait"
                       /\ c.idx = Len(check[i])
                       /\ log[i][c.idx].outcome = "ok"
                /\ (pc[i] = "returned" /\ c.pc # "wait") => result[i] = Some(FALSE)

\* A's context was canceled during the first of two probes and the child was
\* killed; B's was canceled during its last probe, which had succeeded
C5_Witness ==
    /\ CanceledInProgress("A") /\ ValueOf(cancelAt["A"]).pc = "wait"
    /\ Len(check["A"]) = 2 /\ Len(log["A"]) = 1 /\ log["A"][1].outcome = "killed"
    /\ result["A"] = Some(FALSE)
    /\ CanceledInProgress("B") /\ ValueOf(cancelAt["B"]).pc = "wait"
    /\ result["B"] = Some(TRUE)

\* C9: a probe is killed, or refused at its start, only by the context of
\* its own invocation; an invocation whose context stays active returns
\* what its own probes decide, whatever happens to the other invocations.
C9_CancellationIsPerInvocation ==
    \A i \in Invs :
        /\ (\/ child[i] \in {"killed", "exited_ctxerr"}
            \/ \E k \in DOMAIN log[i] : log[i][k].outcome \in {"killed", "ctxdone", "ctxerr"})
              => ctx[i] = "canceled"
        /\ (pc[i] = "returned" /\ ctx[i] = "active") =>
              /\ result[i] = Some(AllPassed(i))
              /\ \A k \in DOMAIN log[i] : log[i][k].outcome \in {"ok", "fail", "nostart"}

\* both are probing at once: A's child was killed by A's context, B's child
\* runs on under B's active context
C9_Witness ==
    /\ child["A"] = "killed" /\ ctx["A"] = "canceled"
    /\ child["B"] = "running" /\ ctx["B"] = "active"

====
